---- MODULE Spec2Model ----
(***************************************************************************)
(* A model of forcingprocessor.py: the round-robin partitioner and the     *)
(* balancer, the grid decoder and the projector, the extraction and the    *)
(* emission pools, the crosswalk loader and the chunked driver of          *)
(* prep_ngen_data.                                                         *)
(*                                                                         *)
(* Conventions.  A Python list is a sequence (index j of the code is       *)
(* index j+1 here).  A Python dict is a sequence of <<key, value>> pairs   *)
(* with distinct keys, in insertion order.  A float is an exact fraction   *)
(* <<num, den>> in lowest terms (den = 0 stands for the inf/nan numpy      *)
(* gives on a division by zero); float32 rounding is not modelled.  A      *)
(* string the code takes apart is the sequence of the parts it is taken    *)
(* apart into.                                                             *)
(***************************************************************************)
EXTENDS Integers, Sequences, FiniteSets, TLC

VARIABLES
    lb,     \* the partitioner/balancer bench: one call of distribute_work + load_balance
    pj,     \* the projector bench: one call of forcing_grid2catchment on one file
    conf,   \* the configuration prep_ngen_data was called with
    pc,     \* prep_ngen_data's position
    err,    \* the exception that ended the run ("" while none)
    run,    \* 1 for the first run of the pipeline, 2 for the second
    g,      \* prep_ngen_data's globals and locals
    pool,   \* the process pool of the stage in progress
    store   \* the objects under the forcings output path: filename -> file

vars == <<lb, pj, conf, pc, err, run, g, pool, store>>

(***************************************************************************)
(* Bounds of the model.                                                    *)
(***************************************************************************)
MaxItems == 12      \* items handed to the partitioner bench
MaxProcs == 8       \* requested worker counts 1..MaxProcs
MaxBenchProcs == 22 \* worker counts handed to the partitioner bench
MaxFiles == 4       \* input files of one run
MaxChunk == 2       \* nfile_chunk is 1..MaxChunk or the default
MaxGrid  == 3       \* the cells of a bench grid hold RAINRATE 0..MaxGrid
MaxWeight == 2      \* coverage weights of a bench descriptor are 1..MaxWeight

(***************************************************************************)
(* Program constants.                                                      *)
(***************************************************************************)
nwm_variables ==
    <<"U2D", "V2D", "LWDOWN", "RAINRATE", "RAINRATE", "T2D", "Q2D", "PSFC", "SWDOWN">>

ngen_variables ==
    <<"UGRD_10maboveground", "VGRD_10maboveground", "DLWRF_surface", "APCP_surface",
      "precip_rate", "TMP_2maboveground", "SPFH_2maboveground", "PRES_surface",
      "DSWRF_surface">>

file_types == {"csv", "parquet", "tar"}

\* launch_time = 0.05 as the fraction launch_time_num / launch_time_den
launch_time_num == 5
launch_time_den == 100
extract_cycle_time == 35
extract_files_per_cycle == 1
write_cycle_time == 1
write_catchments_per_cycle == 200
rainrate_factor == 3600
default_nfile_chunk == 100000

(***************************************************************************)
(* Helpers: sums, fractions, Python slices.                                *)
(***************************************************************************)
RECURSIVE SumSeq(_)
SumSeq(s) == IF s = <<>> THEN 0 ELSE Head(s) + SumSeq(Tail(s))

RECURSIVE Flatten(_)
Flatten(ss) == IF ss = <<>> THEN <<>> ELSE Head(ss) \o Flatten(Tail(ss))

Min2(a, b) == IF a <= b THEN a ELSE b

Abs(a) == IF a < 0 THEN -a ELSE a

RECURSIVE Gcd(_, _)
Gcd(a, b) == IF b = 0 THEN a ELSE Gcd(b, a % b)

\* a / b as a float: the fraction in lowest terms, with a positive denominator
Frac(a, b) ==
    IF b = 0 THEN <<a, 0>>
    ELSE LET d == Gcd(Abs(a), Abs(b))
             s == IF b < 0 THEN -1 ELSE 1
         IN  <<s * (a \div d), s * (b \div d)>>

\* s[start:end] of Python (0-based, end exclusive), for 0 <= start
Slice(s, start, end) ==
    LET e == Min2(end, Len(s))
    IN  IF e <= start THEN <<>> ELSE SubSeq(s, start + 1, e)

\* np.nonzero(x)[0] has this many entries
CountNonzero(s) == Cardinality({k \in 1..Len(s) : s[k] # 0})

(***************************************************************************)
(* distribute_work: round robin.                                           *)
(***************************************************************************)
RECURSIVE DistributeLoop(_, _, _, _)
DistributeLoop(j, nitems, nprocs, items_per_proc) ==
    IF j = nitems THEN items_per_proc
    ELSE LET k == j % nprocs
         IN  DistributeLoop(j + 1, nitems, nprocs,
                            [x \in 1..Len(items_per_proc) |->
                                IF x = k + 1 THEN items_per_proc[x] + 1
                                ELSE items_per_proc[x]])

\* a mutant: every item goes to worker 0
distribute_work_first(nitems, nprocs) ==
    [x \in 1..nprocs |-> IF x = 1 THEN nitems ELSE 0]

distribute_work(nitems, nprocs) ==
    DistributeLoop(0, nitems, nprocs, [x \in 1..nprocs |-> 0])

(***************************************************************************)
(* load_balance.  Times are scaled by launch_time_den * exec_count so that *)
(* they stay integers: completion_time[j] =                                *)
(*   single_ex * x / exec_count + launch_delay * j.                        *)
(***************************************************************************)
CompletionTime(items_per_proc, single_ex, exec_count) ==
    [k \in 1..Len(items_per_proc) |->
        single_ex * items_per_proc[k] * launch_time_den
        + launch_time_num * (k - 1) * exec_count]

MaxOf(s) == CHOOSE m \in {s[k] : k \in 1..Len(s)} : \A k \in 1..Len(s) : s[k] <= m
MinOf(s) == CHOOSE m \in {s[k] : k \in 1..Len(s)} : \A k \in 1..Len(s) : s[k] >= m
\* list.index: the first position of v
IndexOf(s, v) == CHOOSE k \in 1..Len(s) : s[k] = v /\ \A i \in 1..(k - 1) : s[i] # v

RECURSIVE BalanceLoop(_, _, _)
BalanceLoop(items_per_proc, single_ex, exec_count) ==
    IF CountNonzero(items_per_proc) > 0 THEN items_per_proc
    ELSE LET completion_time == CompletionTime(items_per_proc, single_ex, exec_count)
             max_time == MaxOf(completion_time)
             max_loc  == IndexOf(completion_time, max_time)
             min_time == MinOf(completion_time)
             min_loc  == IndexOf(completion_time, min_time)
         IN  IF max_time - min_time > single_ex * launch_time_den * exec_count
             THEN BalanceLoop([k \in 1..Len(items_per_proc) |->
                                  items_per_proc[k]
                                  - (IF k = max_loc THEN 1 ELSE 0)
                                  + (IF k = min_loc THEN 1 ELSE 0)],
                              single_ex, exec_count)
             ELSE items_per_proc

\* a mutant: the downsizing is left out
load_balance_nodownsize(items_per_proc, single_ex, exec_count) ==
    BalanceLoop(items_per_proc, single_ex, exec_count)

load_balance(items_per_proc, single_ex, exec_count) ==
    LET balanced == BalanceLoop(items_per_proc, single_ex, exec_count)
        nprocs   == Len(items_per_proc)
        ntasked  == CountNonzero(balanced)
    IN  IF nprocs > ntasked THEN Slice(balanced, 0, ntasked) ELSE balanced

\* the assert that ends load_balance
load_balance_assert(items_per_proc, result) == SumSeq(items_per_proc) = SumSeq(result)

(***************************************************************************)
(* The partitioner bench: distribute_work then load_balance, on any item   *)
(* count and worker count, with the parameters of either stage.            *)
(***************************************************************************)
StageParams(kind) ==
    IF kind = "extract"
    THEN [single_ex |-> extract_cycle_time, exec_count |-> extract_files_per_cycle]
    ELSE [single_ex |-> write_cycle_time, exec_count |-> write_catchments_per_cycle]

LbIdle == [stage |-> "idle", kind |-> "extract", nitems |-> 0, nprocs |-> 1,
           items_per_proc |-> <<>>, balanced |-> <<>>, result |-> <<>>]

LbInit ==
    lb \in [stage : {"called"}, kind : {"extract", "write"}, nitems : 0..MaxItems,
            nprocs : 1..MaxBenchProcs, items_per_proc : {<<>>}, balanced : {<<>>},
            result : {<<>>}]

LbDistribute ==
    /\ lb.stage = "called"
    /\ lb' = [lb EXCEPT !.stage = "distributed",
                        !.items_per_proc = distribute_work(lb.nitems, lb.nprocs)]
    /\ UNCHANGED <<pj, conf, pc, err, run, g, pool, store>>

\* balanced is the share vector as the loop leaves it, result what is returned; the
\* call raises when the closing assert fails
LbBalance ==
    /\ lb.stage = "distributed"
    /\ LET result == load_balance(lb.items_per_proc, StageParams(lb.kind).single_ex,
                                  StageParams(lb.kind).exec_count)
       IN  lb' = [lb EXCEPT !.stage = IF load_balance_assert(lb.items_per_proc, result)
                                      THEN "balanced" ELSE "raised",
                            !.balanced = BalanceLoop(lb.items_per_proc,
                                                     StageParams(lb.kind).single_ex,
                                                     StageParams(lb.kind).exec_count),
                            !.result = result]
    /\ UNCHANGED <<pj, conf, pc, err, run, g, pool, store>>

(***************************************************************************)
(* The grid decoder and the projector (forcing_grid2catchment).            *)
(* A file is [valid_time, data]: the attribute model_output_valid_time     *)
(* split on "_", and per input variable the flattened (y, x) grid.         *)
(***************************************************************************)
GridShape == <<1, 3>>                       \* (y, x) of the grids of the model
NCells == GridShape[1] * GridShape[2]

\* data_allvars[var_dx] of one file: RAINRATE is scaled wherever it is read
DecodeVar(nwm_data, jvar) ==
    IF jvar = "RAINRATE"
    THEN [c \in 1..Len(nwm_data[jvar]) |-> rainrate_factor * nwm_data[jvar][c]]
    ELSE nwm_data[jvar]

DecodeFile(nwm_data) ==
    [var_dx \in 1..Len(nwm_variables) |-> DecodeVar(nwm_data, nwm_variables[var_dx])]

\* t = time_splt[0] + " " + time_splt[1]
ValidTime(attr) == <<attr[1], " ", attr[2]>>

\* row[idx] of numpy: an index below zero counts from the end
CellAt(row, idx) == row[(idx % Len(row)) + 1]

\* data_allvars[:, weights] raises IndexError for an index outside [-n, n)
IndexOutOfBounds(weights_json) ==
    \E jcatch \in 1..Len(weights_json) :
        \E k \in 1..Len(weights_json[jcatch][2][1]) :
            \/ weights_json[jcatch][2][1][k] >= NCells
            \/ weights_json[jcatch][2][1][k] < -NCells

\* sum over i of coverage[i] * row[cells[i]] (cells are 0-based)
RECURSIVE WeightedSum(_, _, _)
WeightedSum(row, cells, coverage) ==
    IF cells = <<>> THEN 0
    ELSE coverage[1] * CellAt(row, cells[1])
         + WeightedSum(row, Tail(cells), Tail(coverage))

\* a mutant: the sum is divided by the number of cells, not by the weight sum
ProjectCatchment_count(data_allvars, value) ==
    [v \in 1..Len(data_allvars) |->
        Frac(WeightedSum(data_allvars[v], value[1], value[2]), Len(value[1]))]

\* data_array[:, jcatch] for the crosswalk entry value = (cells, coverage)
ProjectCatchment(data_allvars, value) ==
    LET weights    == value[1]
        coverage   == value[2]
        weight_sum == SumSeq(coverage)
    IN  [v \in 1..Len(data_allvars) |->
            Frac(WeightedSum(data_allvars[v], weights, coverage), weight_sum)]

\* data_array of one file, shape (nvar, ncatch): the catchments are the entries of
\* weights_json in its iteration order
ProjectFile(nwm_file, weights_json) ==
    LET data_allvars == DecodeFile(nwm_file.data)
    IN  [v \in 1..Len(nwm_variables) |->
            [jcatch \in 1..Len(weights_json) |->
                ProjectCatchment(data_allvars, weights_json[jcatch][2])[v]]]

\* [data_list, t_list] of forcing_grid2catchment(nwm_files), or the exception the
\* first file raises
forcing_grid2catchment(nwm_files, weights_json) ==
    IF nwm_files # <<>> /\ IndexOutOfBounds(weights_json)
    THEN [data_list |-> <<>>, t_list |-> <<>>, err |-> "IndexError"]
    ELSE [data_list |-> [j \in 1..Len(nwm_files) |->
                            ProjectFile(nwm_files[j], weights_json)],
          t_list    |-> [j \in 1..Len(nwm_files) |-> ValidTime(nwm_files[j].valid_time)],
          err       |-> ""]

(***************************************************************************)
(* Input files of the model.  The fields of a file are affine in one base  *)
(* grid: RAINRATE is the base grid itself and U2D is ten times it.         *)
(***************************************************************************)
VarScale  == [U2D |-> 10, V2D |-> 2, LWDOWN |-> 3, RAINRATE |-> 1, T2D |-> 1,
              Q2D |-> 7, PSFC |-> 10, SWDOWN |-> 4]
VarOffset == [U2D |-> 0, V2D |-> 1, LWDOWN |-> 0, RAINRATE |-> 0, T2D |-> 5,
              Q2D |-> 0, PSFC |-> 1, SWDOWN |-> 2]

MakeFile(hour, base) ==
    [valid_time |-> <<"20220101", hour>>,
     data |-> [jvar \in DOMAIN VarScale |->
                  [c \in 1..NCells |-> VarScale[jvar] * base[c] + VarOffset[jvar]]]]

\* the f-th file of the input list of the pipeline
InputFile(f) == MakeFile(f, [c \in 1..NCells |-> f + c - 1])

(***************************************************************************)
(* The projector bench: forcing_grid2catchment on one file, for any base   *)
(* grid and any one-catchment crosswalk, or the two-catchment crosswalk    *)
(* {cat-1: ([0,1],[1,1]), cat-2: ([2],[2])}.                               *)
(***************************************************************************)
Cat(id) == <<"cat", id>>       \* the key "cat-<id>", split on "-"

CrosswalkS1 == << <<Cat("1"), << <<0, 1>>, <<1, 1>> >> >>,
                  <<Cat("2"), << <<2>>, <<2>> >> >> >>

BenchDescriptors ==
    UNION {[1..n -> 0..(NCells - 1)] \X [1..n -> 1..MaxWeight] : n \in 1..2}

BenchCrosswalks ==
    {CrosswalkS1} \cup {<< <<Cat("1"), d>> >> : d \in BenchDescriptors}

PjIdle == [stage |-> "idle", nwm_file |-> MakeFile(0, [c \in 1..NCells |-> 0]),
           weights_json |-> <<>>, data_array |-> <<>>, t |-> <<>>]

PjInit ==
    \E base \in [1..NCells -> 0..MaxGrid], cw \in BenchCrosswalks :
        pj = [stage |-> "called", nwm_file |-> MakeFile(0, base),
              weights_json |-> cw, data_array |-> <<>>, t |-> <<>>]

PjExtract ==
    /\ pj.stage = "called"
    /\ LET r == forcing_grid2catchment(<<pj.nwm_file>>, pj.weights_json)
       IN  pj' = IF r.err # "" THEN [pj EXCEPT !.stage = "raised"]
                 ELSE [pj EXCEPT !.stage = "returned",
                                 !.data_array = r.data_list[1], !.t = r.t_list[1]]
    /\ UNCHANGED <<lb, conf, pc, err, run, g, pool, store>>

(***************************************************************************)
(* Python dicts as sequences of <<key, value>> pairs.                      *)
(***************************************************************************)
Keys(d) == [k \in 1..Len(d) |-> d[k][1]]

HasKey(d, key) == \E k \in 1..Len(d) : d[k][1] = key

Lookup(d, key) == d[CHOOSE k \in 1..Len(d) : d[k][1] = key][2]

\* d[key] = value
DictSet(d, key, value) ==
    IF HasKey(d, key)
    THEN [k \in 1..Len(d) |-> IF d[k][1] = key THEN <<key, value>> ELSE d[k]]
    ELSE Append(d, <<key, value>>)

RECURSIVE DictUnion_keepfirst(_, _)
DictUnion_keepfirst(a, b) ==
    IF b = <<>> THEN a
    ELSE DictUnion_keepfirst(IF HasKey(a, b[1][1]) THEN a ELSE Append(a, b[1]), Tail(b))

\* a | b: the keys of a keep their place and take b's value, b's new keys follow
RECURSIVE DictUnion(_, _)
DictUnion(a, b) ==
    IF b = <<>> THEN a ELSE DictUnion(DictSet(a, b[1][1], b[1][2]), Tail(b))

Contains(list, x) == \E k \in 1..Len(list) : list[k] = x

(***************************************************************************)
(* The configurations of the model.  A weight file is [path, body]: its    *)
(* path cut into the pieces the loader looks at ("//", "/", "VPU_") and    *)
(* the dict its JSON holds.  weight_file is one weight file or a list of   *)
(* them; a single one (is_list FALSE) is held as the list the loader makes *)
(* of it.                                                                  *)
(***************************************************************************)
Desc1 == << <<0, 1>>, <<1, 1>> >>
Desc2 == << <<2>>, <<2>> >>
Desc3 == << <<0, 2>>, <<1, 3>> >>

LocalVpu(n)  == <<"weights", "/", "VPU_", n, "/", "weights.json">>
BucketVpu(n) == <<"s3:", "//", "bucket", "/", "VPU_", n, "/", "weights.json">>

BodyA == << <<Cat("1"), Desc1>>, <<Cat("2"), Desc2>> >>
BodyB == << <<Cat("3"), Desc3>> >>
BodyC == << <<Cat("1"), Desc3>>, <<Cat("3"), Desc2>> >>

WeightFileConfigs ==
    { [is_list |-> FALSE, value |-> << [path |-> <<"weights.json">>, body |-> BodyA] >>],
      [is_list |-> TRUE,  value |-> << [path |-> BucketVpu("01"), body |-> BodyA],
                                        [path |-> BucketVpu("02"), body |-> BodyB] >>],
      [is_list |-> TRUE,  value |-> << [path |-> LocalVpu("01"), body |-> BodyA],
                                        [path |-> LocalVpu("02"), body |-> BodyB] >>],
      [is_list |-> TRUE,  value |-> << [path |-> BucketVpu("01"), body |-> BodyA],
                                        [path |-> BucketVpu("02"), body |-> BodyC] >>] }

\* output paths, cut at the substrings the code looks for
OutputPaths == { <<"/data/out">>,
                 <<"s3", "://bucket/out">>,
                 <<"https://storage.", "google", "apis.com/bucket/out">> }

OutputFileTypes == { <<"csv">>, <<"parquet">>, <<"tar">>, <<"csv", "tar">> }

ChunkSizes == (1..MaxChunk) \cup {default_nfile_chunk}

Configs ==
    [weight_file : WeightFileConfigs, output_path : OutputPaths,
     output_file_type : OutputFileTypes, collect_stats : BOOLEAN,
     nprocs : 1..MaxProcs, nfile_chunk : ChunkSizes, nfiles : 1..MaxFiles]

(***************************************************************************)
(* Further configurations that the code accepts: crosswalk entries with a  *)
(* zero weight sum or with a cell index outside the grid, a gs:// output   *)
(* path, csv and parquet named together.                                   *)
(***************************************************************************)
DescZero   == << <<0>>, <<0>> >>
DescBeyond == << <<NCells>>, <<1>> >>
DescBefore == << <<-1>>, <<1>> >>

BodyZero   == << <<Cat("1"), Desc1>>, <<Cat("2"), DescZero>> >>
BodyBeyond == << <<Cat("1"), DescBeyond>> >>
BodyBefore == << <<Cat("1"), DescBefore>> >>

WideWeightFiles ==
    { [is_list |-> FALSE, value |-> << [path |-> <<"weights.json">>, body |-> b] >>] :
          b \in {BodyA, BodyZero, BodyBeyond, BodyBefore} }

WideOutputPaths == OutputPaths \cup { <<"gs://", "bucket/out">> }

WideOutputFileTypes == { <<"csv">>, <<"csv", "parquet">>, <<"tar">> }

WideConfigs ==
    [weight_file : WideWeightFiles, output_path : WideOutputPaths,
     output_file_type : WideOutputFileTypes, collect_stats : {FALSE},
     nprocs : {1, 2}, nfile_chunk : {1, default_nfile_chunk}, nfiles : {1, 2}]

(***************************************************************************)
(* prep_ngen_data: configuration.                                          *)
(***************************************************************************)
StorageType(output_path) ==
    IF Contains(output_path, "s3") THEN "s3"
    ELSE IF Contains(output_path, "google") THEN "google"
    ELSE "local"

Locals == {"data_array", "t_ax", "forcing_cat_ids", "dfs", "filenames"}

GInit == [storage_type |-> "", forcing_path |-> FALSE,
          crosswalk_dict |-> <<>>, jcatchment_dict |-> <<>>, count |-> 0, wf |-> 0,
          nwm_forcing_files |-> <<>>, nloops |-> 0, jloop |-> 0, ii_append |-> FALSE,
          data_array |-> <<>>, t_ax |-> <<>>, forcing_cat_ids |-> <<>>, dfs |-> <<>>,
          filenames |-> <<>>, bound |-> {}, archives |-> <<>>]

PoolIdle == [kind |-> "none", max_workers |-> 0, tasks |-> <<>>, results |-> <<>>]

Raise(e) == /\ pc' = "error"
            /\ err' = e

Configure ==
    /\ pc = "config"
    /\ IF \E k \in 1..Len(conf.output_file_type) : conf.output_file_type[k] \notin file_types
       THEN Raise("AssertionError") /\ UNCHANGED g
       ELSE /\ g' = [g EXCEPT !.storage_type = StorageType(conf.output_path),
                              !.forcing_path = StorageType(conf.output_path) \in {"local", "s3"}]
            /\ pc' = "readweights"
            /\ UNCHANGED err
    /\ UNCHANGED <<lb, pj, conf, run, pool, store>>

(***************************************************************************)
(* prep_ngen_data: the crosswalk loader.                                   *)
(***************************************************************************)
IsSlash(tok) == tok \in {"/", "//"}

\* re.search(r'VPU_([^/]+)', path): the place of the first "VPU_" that something
\* other than a slash follows, 0 when there is none
VpuMatch(path) ==
    LET hits == {k \in 1..(Len(path) - 1) : path[k] = "VPU_" /\ ~IsSlash(path[k + 1])}
    IN  IF hits = {} THEN 0 ELSE CHOOSE k \in hits : \A h \in hits : k <= h

\* "VPU_" + match.group(1): the pieces up to the next slash
RECURSIVE UpToSlash(_)
UpToSlash(toks) ==
    IF toks = <<>> \/ IsSlash(Head(toks)) THEN <<>> ELSE <<Head(toks)>> \o UpToSlash(Tail(toks))

VpuName(path) ==
    LET k == VpuMatch(path) IN <<"VPU_">> \o UpToSlash(SubSeq(path, k + 1, Len(path)))

\* the list recorded for the document just merged (crosswalk_dict is the union so far)
GroupKeys(ii_weights_in_bucket, new_dict, crosswalk_dict) ==
    IF ii_weights_in_bucket THEN Keys(new_dict) ELSE Keys(crosswalk_dict)

\* weight_files: [weight_file] when weight_file is no list
WeightFiles == conf.weight_file.value

LoadWeightFile ==
    /\ pc = "readweights"
    /\ g.wf < Len(WeightFiles)
    /\ LET jweight_file == WeightFiles[g.wf + 1]
           ii_weights_in_bucket == Contains(jweight_file.path, "//")
           matched == VpuMatch(jweight_file.path) # 0
           count == IF matched THEN g.count ELSE g.count + 1
           jname == IF matched THEN VpuName(jweight_file.path) ELSE <<ToString(count)>>
           new_dict == jweight_file.body
           crosswalk_dict == DictUnion(g.crosswalk_dict, new_dict)
       IN  g' = [g EXCEPT !.wf = @ + 1, !.count = count,
                          !.crosswalk_dict = crosswalk_dict,
                          !.jcatchment_dict =
                              DictSet(@, jname, GroupKeys(ii_weights_in_bucket, new_dict,
                                                          crosswalk_dict))]
    /\ UNCHANGED <<lb, pj, conf, pc, err, run, pool, store>>

\* the input list of the run: nfiles files, other files in the second run
ReadFileList ==
    /\ pc = "readweights"
    /\ g.wf = Len(WeightFiles)
    /\ g' = [g EXCEPT !.nwm_forcing_files =
                          [k \in 1..conf.nfiles |-> (run - 1) * conf.nfiles + k],
                      !.nloops = (conf.nfiles + conf.nfile_chunk - 1) \div conf.nfile_chunk,
                      !.jloop = 0,
                      !.ii_append = FALSE]
    /\ pc' = "loop"
    /\ UNCHANGED <<lb, pj, conf, err, run, pool, store>>

(***************************************************************************)
(* multiprocess_data_extract.                                              *)
(***************************************************************************)
\* files_list: worker i takes files[start:end], the slices follow each other
RECURSIVE FilesList(_, _, _)
FilesList(files, files_per_proc, start) ==
    IF files_per_proc = <<>> THEN <<>>
    ELSE LET end == Min2(start + Head(files_per_proc), Len(files))
         IN  <<Slice(files, start, end)>> \o FilesList(files, Tail(files_per_proc), end)

\* a mutant: worker i takes the files j with j mod nprocs = i
ExtractTasks_interleaved(files, nprocs) ==
    LET files_per_proc == load_balance(distribute_work(Len(files), nprocs),
                                       extract_cycle_time, extract_files_per_cycle)
        n == Len(files_per_proc)
        Pick(i) == {k \in 1..Len(files) : (k - 1) % n = i - 1}
        RECURSIVE InOrder(_)
        InOrder(S) == IF S = {} THEN <<>>
                      ELSE LET m == CHOOSE x \in S : \A y \in S : x <= y
                           IN  <<files[m]>> \o InOrder(S \ {m})
    IN  [i \in 1..n |-> InOrder(Pick(i))]

ExtractTasks(files, nprocs) ==
    LET files_per_proc == load_balance(distribute_work(Len(files), nprocs),
                                       extract_cycle_time, extract_files_per_cycle)
    IN  FilesList(files, files_per_proc, 0)

Pending == [done |-> FALSE, value |-> <<>>]

AllDone == \A i \in 1..Len(pool.results) : pool.results[i].done

\* a mutant: chunk jloop starts at file jloop
ChunkFiles_step(files, jloop, nfile_chunk) ==
    Slice(files, jloop, Min2(jloop + nfile_chunk, Len(files)))

\* the files of chunk jloop
ChunkFiles(files, jloop, nfile_chunk) ==
    LET start == jloop * nfile_chunk
        end   == Min2(start + nfile_chunk, Len(files))
    IN  Slice(files, start, end)

\* one turn of the chunk loop begins: the extraction pool is set up
ExtractStart ==
    /\ pc = "loop"
    /\ LET jnwm_files == ChunkFiles(g.nwm_forcing_files, g.jloop, conf.nfile_chunk)
           files_list == ExtractTasks(jnwm_files, conf.nprocs)
       IN  pool' = [kind |-> "extract", max_workers |-> Len(files_list),
                    tasks |-> files_list,
                    results |-> [i \in 1..Len(files_list) |-> Pending]]
    /\ pc' = "extracting"
    /\ UNCHANGED <<lb, pj, conf, err, run, g, store>>

\* extraction worker i runs forcing_grid2catchment on its files
ExtractWorker(i) ==
    /\ pc = "extracting"
    /\ ~pool.results[i].done
    /\ pool' = [pool EXCEPT !.results[i] =
                   [done |-> TRUE,
                    value |-> forcing_grid2catchment(
                                 [k \in 1..Len(pool.tasks[i]) |-> InputFile(pool.tasks[i][k])],
                                 g.crosswalk_dict)]]
    /\ UNCHANGED <<lb, pj, conf, pc, err, run, g, store>>

\* a mutant: the results are gathered last worker first
Gather_reversed(results) ==
    [i \in 1..Len(results) |-> results[Len(results) + 1 - i].value]

\* pool.map gives the results in the order of the tasks
Gather(results) == [i \in 1..Len(results) |-> results[i].value]

\* the pool is done: the cube and the time axis are put together
ExtractCollect ==
    /\ pc = "extracting"
    /\ AllDone
    /\ LET got == Gather(pool.results)
           failed     == {i \in 1..Len(got) : got[i].err # ""}
           data_ax    == [i \in 1..Len(got) |-> got[i].data_list]
           t_ax_local == [i \in 1..Len(got) |-> got[i].t_list]
       IN  IF failed # {}
           THEN Raise(got[CHOOSE i \in failed : \A k \in failed : i <= k].err)
                /\ UNCHANGED g
           ELSE /\ g' = [g EXCEPT !.data_array = Flatten(data_ax),
                                  !.t_ax = Flatten(t_ax_local),
                                  !.bound = @ \cup {"data_array", "t_ax"}]
                /\ pc' = "emit"
                /\ UNCHANGED err
    /\ pool' = PoolIdle
    /\ UNCHANGED <<lb, pj, conf, run, store>>

(***************************************************************************)
(* write_data.  A DataFrame is [columns, rows]; a csv file is its lines,   *)
(* the header first (index=False: no index column); a parquet file is its  *)
(* schema and its rows.                                                    *)
(***************************************************************************)
\* df of catchment column j (1-based) of data (time, variable, catchment)
MakeDf(data, t_ax, j) ==
    [columns |-> <<"time">> \o ngen_variables,
     rows    |-> [t \in 1..Len(data) |->
                    <<t_ax[t]>> \o [v \in 1..Len(data[t]) |-> data[t][v][j]]]]

to_csv(df) == [kind |-> "csv", lines |-> <<df.columns>> \o df.rows]

read_csv(file) == [columns |-> Head(file.lines), rows |-> Tail(file.lines)]

to_parquet(df) == [kind |-> "parquet", schema |-> df.columns, rows |-> df.rows]

read_parquet(file) == [columns |-> file.schema, rows |-> file.rows]

\* pd.concat([a, b]) of frames with the same columns
Concat(a, b) == [columns |-> a.columns, rows |-> a.rows \o b.rows]

Serialize(df, ext) == IF ext = "parquet" THEN to_parquet(df) ELSE to_csv(df)

ReadBack(file, ext) == IF ext = "parquet" THEN read_parquet(file) ELSE read_csv(file)

\* f"cat-{cat_id}.<ext>", the name under the forcings path or key prefix
FileName(cat_id, ext) == <<"cat", cat_id, ext>>

Put(st, filename, file) ==
    [n \in (DOMAIN st) \cup {filename} |-> IF n = filename THEN file ELSE st[n]]

\* a mutant: the new rows go before the rows read back
Appended_before(st, filename, ext, df, ii_append) ==
    IF ii_append THEN Concat(df, ReadBack(st[filename], ext)) ELSE df

\* a mutant: an object found at the path is always appended to
Appended_resume(st, filename, ext, df, ii_append) ==
    IF filename \in DOMAIN st THEN Concat(ReadBack(st[filename], ext), df) ELSE df

\* the frame written for a catchment: with ii_append, the object read back and
\* the new rows after it
Appended(st, filename, ext, df, ii_append) ==
    IF ii_append THEN Concat(ReadBack(st[filename], ext), df) ELSE df

\* write_data's loop from catchment j on; acc is
\* [store, forcing_cat_ids, dfs, filenames, filename, err]
RECURSIVE WriteLoop(_, _, _, _, _, _, _, _)
WriteLoop(j, data, t_ax, catchments, ii_append, storage_type, output_file_type, acc) ==
    IF j > Len(catchments) \/ acc.err # "" THEN acc
    ELSE LET jcatch  == catchments[j]
             df0     == MakeDf(data, t_ax, j)
             cat_id  == jcatch[2]
             loose   == Contains(output_file_type, "parquet")
                        \/ Contains(output_file_type, "csv")
             sink    == storage_type \in {"s3", "local"}
             ext     == IF Contains(output_file_type, "parquet") THEN "parquet" ELSE "csv"
             filename == IF loose
                         THEN (IF sink THEN FileName(cat_id, ext) ELSE acc.filename)
                         ELSE FileName(cat_id, "csv")
             missing == loose /\ sink /\ ii_append /\ filename \notin DOMAIN acc.store
             \* neither branch names the file and no earlier catchment did
             unbound == loose /\ ~sink /\ acc.filename = <<>>
             df      == IF loose /\ sink /\ ~missing
                        THEN Appended(acc.store, filename, ext, df0, ii_append)
                        ELSE df0
             next    == IF missing THEN [acc EXCEPT !.err = "FileNotFoundError"]
                        ELSE IF unbound
                        THEN [acc EXCEPT !.err = "UnboundLocalError: filename"]
                        ELSE [store |-> IF loose /\ sink
                                        THEN Put(acc.store, filename, Serialize(df, ext))
                                        ELSE acc.store,
                              forcing_cat_ids |-> Append(acc.forcing_cat_ids, cat_id),
                              dfs |-> Append(acc.dfs, df),
                              filenames |-> Append(acc.filenames, filename),
                              \* for the first catchment a name that is no local
                              \* file becomes "./cat-<id>.csv" (the size probe)
                              filename |-> IF j = 1 /\ ~(loose /\ storage_type = "local")
                                           THEN FileName(cat_id, "csv") ELSE filename,
                              err |-> ""]
         IN  WriteLoop(j + 1, data, t_ax, catchments, ii_append, storage_type,
                       output_file_type, next)

\* where the branch of write_data taken for storage_type puts the object
Sink(storage_type) ==
    IF storage_type = "s3" THEN "S3"
    ELSE IF storage_type = "local" THEN "LOCAL"
    ELSE "NONE"

write_data(data, t_ax, catchments, ii_append, storage_type, output_file_type, st) ==
    WriteLoop(1, data, t_ax, catchments, ii_append, storage_type, output_file_type,
              [store |-> st, forcing_cat_ids |-> <<>>, dfs |-> <<>>, filenames |-> <<>>,
               filename |-> <<>>, err |-> ""])

(***************************************************************************)
(* multiprocess_write.                                                     *)
(***************************************************************************)
\* a mutant: every task is given the first columns of the cube
CatchmentSlice_fromzero(data, start, end) ==
    [t \in 1..Len(data) |-> [v \in 1..Len(data[t]) |-> Slice(data[t][v], 0, end - start)]]

\* data[:, :, start:end]
CatchmentSlice(data, start, end) ==
    [t \in 1..Len(data) |-> [v \in 1..Len(data[t]) |-> Slice(data[t][v], start, end)]]

\* the loop over the catchments that cuts the tasks; i, count, start as in the code,
\* wc the catchments of the task being filled.  catchments_per_proc[i] beyond the
\* end of the list is an IndexError.
RECURSIVE TaskLoop(_, _, _, _, _, _, _, _, _, _)
TaskLoop(j, i, count, start, wc, tasks, data, t_ax, catchments, cpp) ==
    IF j > Len(catchments) THEN [tasks |-> tasks, err |-> ""]
    ELSE IF i + 1 > Len(cpp) THEN [tasks |-> tasks, err |-> "IndexError"]
    ELSE LET wc1 == Append(wc, catchments[j])
         IN  IF count + 1 = cpp[i + 1] \/ j = Len(catchments)
             THEN LET end == Min2(start + cpp[i + 1], Len(catchments))
                      task == [data |-> CatchmentSlice(data, start, end),
                               t_ax |-> t_ax, catchments |-> wc1,
                               ii_print |-> Len(tasks) >= CountNonzero(cpp) - 1]
                  IN  TaskLoop(j + 1, i + 1, 0, end, <<>>, Append(tasks, task),
                               data, t_ax, catchments, cpp)
             ELSE TaskLoop(j + 1, i, count + 1, start, wc1, tasks,
                           data, t_ax, catchments, cpp)

WriteTasks(data, t_ax, catchments, nprocs) ==
    LET catchments_per_proc ==
            load_balance(distribute_work(Len(catchments), nprocs),
                         write_cycle_time, write_catchments_per_cycle)
    IN  TaskLoop(1, 0, 0, 0, <<>>, <<>>, data, t_ax, catchments, catchments_per_proc)

\* multiprocess_write is called: forcing_path is a global that only the local and
\* the s3 branch of the configuration set
WriteStart ==
    /\ pc = "emit"
    /\ IF ~g.forcing_path
       THEN Raise("NameError: forcing_path") /\ UNCHANGED pool
       ELSE LET built == WriteTasks(g.data_array, g.t_ax, Keys(g.crosswalk_dict),
                                    conf.nprocs)
            IN  IF built.err # ""
                THEN Raise(built.err) /\ UNCHANGED pool
                ELSE /\ pool' = [kind |-> "write", max_workers |-> conf.nprocs,
                                 tasks |-> built.tasks,
                                 results |-> [i \in 1..Len(built.tasks) |-> Pending]]
                     /\ pc' = "writing"
                     /\ UNCHANGED err
    /\ UNCHANGED <<lb, pj, conf, run, g, store>>

\* emission worker i runs write_data on its task
WriteWorker(i) ==
    /\ pc = "writing"
    /\ ~pool.results[i].done
    /\ LET task == pool.tasks[i]
           r == write_data(task.data, task.t_ax, task.catchments, g.ii_append,
                           g.storage_type, conf.output_file_type, store)
       IN  /\ store' = r.store
           /\ pool' = [pool EXCEPT !.results[i] =
                          [done |-> TRUE,
                           value |-> [forcing_cat_ids |-> r.forcing_cat_ids, dfs |-> r.dfs,
                                      filenames |-> r.filenames, err |-> r.err]]]
    /\ UNCHANGED <<lb, pj, conf, pc, err, run, g>>

\* "tar" in storage_type: a substring test on "s3", "google" or "local"
HasTar(storage_type) == storage_type = "tar"

\* the pool is done: the results are flattened, the append flag is set and the
\* locals of the turn are deleted; the loop goes on or ends
WriteCollect ==
    /\ pc = "writing"
    /\ AllDone
    /\ LET got == Gather(pool.results)
           failed == {i \in 1..Len(got) : got[i].err # ""}
       IN  IF failed # {}
           THEN Raise(got[CHOOSE i \in failed : \A k \in failed : i <= k].err)
                /\ UNCHANGED g
           ELSE /\ g' = [g EXCEPT
                         !.forcing_cat_ids = IF HasTar(g.storage_type)
                             THEN Flatten([i \in 1..Len(got) |-> got[i].forcing_cat_ids])
                             ELSE <<>>,
                         !.dfs = IF HasTar(g.storage_type)
                             THEN Flatten([i \in 1..Len(got) |-> got[i].dfs]) ELSE <<>>,
                         !.filenames = IF HasTar(g.storage_type)
                             THEN Flatten([i \in 1..Len(got) |-> got[i].filenames])
                             ELSE <<>>,
                         !.data_array = IF HasTar(g.storage_type) THEN @ ELSE <<>>,
                         !.t_ax = IF HasTar(g.storage_type) THEN @ ELSE <<>>,
                         !.bound = IF HasTar(g.storage_type)
                                   THEN @ \cup Locals ELSE @ \ Locals,
                         !.ii_append = TRUE,
                         !.jloop = @ + 1]
                /\ pc' = IF g.jloop + 1 < g.nloops THEN "loop" ELSE "metadata"
                /\ UNCHANGED err
    /\ pool' = PoolIdle
    /\ UNCHANGED <<lb, pj, conf, run, store>>

(***************************************************************************)
(* prep_ngen_data after the loop: metadata, archives, the end.             *)
(***************************************************************************)
\* the statistics read data_array and forcing_cat_ids
Metadata ==
    /\ pc = "metadata"
    /\ IF conf.collect_stats /\ ~({"data_array", "forcing_cat_ids"} \subseteq g.bound)
       THEN Raise("UnboundLocalError: data_array")
       ELSE pc' = "tar" /\ UNCHANGED err
    /\ UNCHANGED <<lb, pj, conf, run, g, pool, store>>

\* multiprocess_write_tars: per group its slice of dfs and filenames; every
\* filename must be the group's catchment + ".csv"
RECURSIVE TarGroups(_, _, _, _)
TarGroups(groups, dfs, filenames, i) ==
    IF groups = <<>> THEN [archives |-> <<>>, err |-> ""]
    ELSE LET jchunk == groups[1][1]
             cats   == groups[1][2]
             k      == i + Len(cats)
             names  == Slice(filenames, i, k)
             frames == Slice(dfs, i, k)
             bad    == \E j \in 1..Len(names) :
                          j > Len(cats) \/ names[j] # cats[j] \o <<"csv">>
             rest   == TarGroups(Tail(groups), dfs, filenames, k)
         IN  IF bad THEN [archives |-> <<>>, err |-> "AssertionError"]
             ELSE IF Len(frames) < Len(cats) THEN [archives |-> <<>>, err |-> "IndexError"]
             ELSE IF rest.err # "" THEN rest
             ELSE [archives |->
                     << [tar_name |-> jchunk \o <<"_forcings.tar.gz">>,
                         members |-> [j \in 1..Len(cats) |->
                                         [arcname |-> names[j], df |-> frames[j]]]] >>
                     \o rest.archives,
                   err |-> ""]

Archive ==
    /\ pc = "tar"
    /\ IF Contains(conf.output_file_type, "tar")
       THEN IF ~({"dfs", "filenames"} \subseteq g.bound)
            THEN Raise("UnboundLocalError: dfs") /\ UNCHANGED g
            ELSE LET r == TarGroups(g.jcatchment_dict, g.dfs, g.filenames, 0)
                 IN  IF r.err # ""
                     THEN Raise(r.err) /\ UNCHANGED g
                     ELSE /\ g' = [g EXCEPT !.archives = r.archives,
                                            !.bound = @ \cup {"t0000"}]
                          /\ pc' = "finish"
                          /\ UNCHANGED err
       ELSE pc' = "finish" /\ UNCHANGED <<g, err>>
    /\ UNCHANGED <<lb, pj, conf, run, pool, store>>

\* tar_time = time.perf_counter() - t0000, and the return
Finish ==
    /\ pc = "finish"
    /\ IF "t0000" \notin g.bound
       THEN Raise("UnboundLocalError: t0000")
       ELSE pc' = "done" /\ UNCHANGED err
    /\ UNCHANGED <<lb, pj, conf, run, g, pool, store>>

\* the pipeline is run once more, with the same configuration and output path and
\* another input list
Rerun ==
    /\ pc \in {"done", "error"}
    /\ run = 1
    /\ run' = 2
    /\ pc' = "config"
    /\ err' = ""
    /\ g' = GInit
    /\ pool' = PoolIdle
    /\ UNCHANGED <<lb, pj, conf, store>>

(***************************************************************************)
(* The specifications.                                                     *)
(***************************************************************************)
EmptyStore == [n \in {} |-> <<>>]

PipelineIdle ==
    /\ conf = [weight_file |-> [is_list |-> FALSE, value |-> <<>>], output_path |-> <<>>,
               output_file_type |-> <<>>, collect_stats |-> FALSE, nprocs |-> 1,
               nfile_chunk |-> 1, nfiles |-> 0]
    /\ pc = "idle"
    /\ err = ""
    /\ run = 0
    /\ g = GInit
    /\ pool = PoolIdle
    /\ store = EmptyStore

\* the pipeline: prep_ngen_data called with any configuration of the model
Init ==
    /\ lb = LbIdle
    /\ pj = PjIdle
    /\ conf \in Configs
    /\ pc = "config"
    /\ err = ""
    /\ run = 1
    /\ g = GInit
    /\ pool = PoolIdle
    /\ store = EmptyStore

Next ==
    \/ Configure
    \/ LoadWeightFile
    \/ ReadFileList
    \/ ExtractStart
    \/ \E i \in 1..Len(pool.results) : ExtractWorker(i)
    \/ ExtractCollect
    \/ WriteStart
    \/ \E i \in 1..Len(pool.results) : WriteWorker(i)
    \/ WriteCollect
    \/ Metadata
    \/ Archive
    \/ Finish

Spec == Init /\ [][Next]_vars

\* two runs of the pipeline into one output path, on csv or parquet output
InitRerun == Init /\ conf.nprocs <= 2 /\ ~Contains(conf.output_file_type, "tar")

NextRerun == Next \/ Rerun

SpecRerun == InitRerun /\ [][NextRerun]_vars

\* the pipeline without the statistics, on the sinks that write_data serves
InitEmit == Init /\ ~conf.collect_stats /\ StorageType(conf.output_path) \in {"local", "s3"}

SpecEmit == InitEmit /\ [][Next]_vars

\* the pipeline on the further configurations
InitWide ==
    /\ lb = LbIdle
    /\ pj = PjIdle
    /\ conf \in WideConfigs
    /\ pc = "config"
    /\ err = ""
    /\ run = 1
    /\ g = GInit
    /\ pool = PoolIdle
    /\ store = EmptyStore

SpecWide == InitWide /\ [][Next]_vars

\* the partitioner bench
InitBalance == LbInit /\ pj = PjIdle /\ PipelineIdle

NextBalance == LbDistribute \/ LbBalance

SpecBalance == InitBalance /\ [][NextBalance]_vars

\* the projector bench
InitProject == lb = LbIdle /\ PjInit /\ PipelineIdle

NextProject == PjExtract

SpecProject == InitProject /\ [][NextProject]_vars

(***************************************************************************)
(* Properties of the partitioner and the balancer.                         *)
(***************************************************************************)
\* C7: distribute_work(N, P) is a length-P vector, share[k] is the number of i in
\* [0, N) with i mod P = k, the shares sum to N and differ by at most 1.
C7_RoundRobin ==
    lb.stage \in {"distributed", "balanced"} =>
        /\ Len(lb.items_per_proc) = lb.nprocs
        /\ \A k \in 1..lb.nprocs :
              lb.items_per_proc[k]
                  = Cardinality({i \in 0..(lb.nitems - 1) : i % lb.nprocs = k - 1})
        /\ SumSeq(lb.items_per_proc) = lb.nitems
        /\ MaxOf(lb.items_per_proc) - MinOf(lb.items_per_proc) <= 1

C7_Witness ==
    /\ lb.stage = "distributed"
    /\ lb.nitems = 7
    /\ lb.nprocs = 3
    /\ lb.items_per_proc = <<3, 2, 2>>

\* C8: for N >= 1, load_balance(distribute_work(N, P)) with the parameters of either
\* stage sums to N, has no zero entry, and is as long as the number of workers with
\* a nonzero share, which is at most P; 8 workers and 3 items give 3 workers.
C8_Downsized ==
    (lb.stage = "balanced" /\ lb.nitems >= 1) =>
        /\ SumSeq(lb.result) = lb.nitems
        /\ \A k \in 1..Len(lb.result) : lb.result[k] # 0
        /\ Len(lb.result) = CountNonzero(lb.items_per_proc)
        /\ Len(lb.result) <= lb.nprocs
        /\ (lb.nprocs = 8 /\ lb.nitems = 3) => Len(lb.result) = 3

C8_Witness ==
    /\ lb.stage = "balanced"
    /\ lb.nprocs = 8
    /\ lb.nitems = 3
    /\ lb.items_per_proc = <<1, 1, 1, 0, 0, 0, 0, 0>>
    /\ lb.result = <<1, 1, 1>>

\* C16: when load_balance is past its loop, on the shares of N >= 1 items, the gap
\* between the greatest and the least projected completion time is at most single_ex
\* or every worker has a nonzero load.
C16_GapOrAllLoaded ==
    (lb.stage \in {"balanced", "raised"} /\ lb.nitems >= 1) =>
        LET single_ex  == StageParams(lb.kind).single_ex
            exec_count == StageParams(lb.kind).exec_count
            completion_time == CompletionTime(lb.balanced, single_ex, exec_count)
        IN  \/ MaxOf(completion_time) - MinOf(completion_time)
                   <= single_ex * launch_time_den * exec_count
            \/ \A k \in 1..Len(lb.balanced) : lb.balanced[k] # 0

(***************************************************************************)
(* Properties of the decoder and the projector.                            *)
(***************************************************************************)
VarIndex(name) == CHOOSE v \in 1..Len(ngen_variables) : ngen_variables[v] = name

\* the sequence of the products w_i * G[cells_i]
Products(grid, desc) == [i \in 1..Len(desc[1]) |-> desc[2][i] * grid[desc[1][i] + 1]]

\* the fraction x is a / b
IsQuotient(x, a, b) == x[2] # 0 /\ x[1] * b = a * x[2]

\* C5: for every catchment APCP_surface is the weighted mean of RAINRATE and
\* precip_rate is 3600 times it; RAINRATE = 1 on the covered cells gives 1 and 3600.
C5_RainrateDuality ==
    pj.stage = "returned" =>
        \A j \in 1..Len(pj.weights_json) :
            LET desc   == pj.weights_json[j][2]
                rain   == pj.nwm_file.data["RAINRATE"]
                apcp   == pj.data_array[VarIndex("APCP_surface")][j]
                precip == pj.data_array[VarIndex("precip_rate")][j]
            IN  /\ IsQuotient(apcp, SumSeq(Products(rain, desc)), SumSeq(desc[2]))
                /\ precip = Frac(rainrate_factor * apcp[1], apcp[2])
                /\ (\A i \in 1..Len(desc[1]) : rain[desc[1][i] + 1] = 1)
                       => apcp = <<1, 1>> /\ precip = <<rainrate_factor, 1>>

\* C6: for a variable the decoder does not scale and any catchment (cells, weights)
\* the projector gives (sum of weights[i] * grid[cells[i]]) / (sum of weights); with
\* equal weights that is the mean of the covered cells; the crosswalk
\* {cat-1: ([0,1],[1,1]), cat-2: ([2],[2])} and U2D = [10,20,30] give 15 and 30.
C6_WeightedMean ==
    pj.stage = "returned" =>
        /\ \A v \in 1..Len(nwm_variables), j \in 1..Len(pj.weights_json) :
              nwm_variables[v] # "RAINRATE" =>
                 LET desc == pj.weights_json[j][2]
                     grid == pj.nwm_file.data[nwm_variables[v]]
                     out  == pj.data_array[v][j]
                     n    == Len(desc[1])
                 IN  /\ IsQuotient(out, SumSeq(Products(grid, desc)), SumSeq(desc[2]))
                     /\ (\A i \in 1..n : desc[2][i] = desc[2][1]) =>
                            IsQuotient(out, SumSeq([i \in 1..n |-> grid[desc[1][i] + 1]]), n)
        /\ (pj.weights_json = CrosswalkS1 /\ pj.nwm_file.data["U2D"] = <<10, 20, 30>>)
              => pj.data_array[VarIndex("UGRD_10maboveground")] = << <<15, 1>>, <<30, 1>> >>

C6_Witness ==
    /\ pj.stage = "returned"
    /\ pj.weights_json = CrosswalkS1
    /\ pj.nwm_file.data["U2D"] = <<10, 20, 30>>
    /\ pj.data_array[VarIndex("UGRD_10maboveground")] = << <<15, 1>>, <<30, 1>> >>

(***************************************************************************)
(* Properties of the pipeline.                                             *)
(***************************************************************************)
CatchmentKeys == Keys(g.crosswalk_dict)

Loose == Contains(conf.output_file_type, "parquet") \/ Contains(conf.output_file_type, "csv")

OutputExt == IF Contains(conf.output_file_type, "parquet") THEN "parquet" ELSE "csv"

\* the files of the chunk in progress
CurrentChunk == ChunkFiles(g.nwm_forcing_files, g.jloop, conf.nfile_chunk)

\* the files of the first j chunks of the run
FilesOfChunks(j) ==
    Slice(g.nwm_forcing_files, 0, Min2(j * conf.nfile_chunk, Len(g.nwm_forcing_files)))

\* the row of input file f in the table of catchment key
ExpectedRow(f, key) ==
    <<ValidTime(InputFile(f).valid_time)>>
    \o ProjectCatchment(DecodeFile(InputFile(f).data), Lookup(g.crosswalk_dict, key))

ExpectedRows(files, key) == [k \in 1..Len(files) |-> ExpectedRow(files[k], key)]

DataRows(file) == IF file.kind = "csv" THEN Tail(file.lines) ELSE file.rows

OutputFile(key) == FileName(key[2], OutputExt)

\* the emission of chunk j of the run is complete
EmittedChunks(j) == g.jloop = j /\ j >= 1 /\ pc # "writing"

\* C1: whatever order the extraction workers finish in, entry t of the time axis and
\* of the cube come from file t of the chunk's list: the workers' slices are
\* contiguous and follow the list, each worker's time stamps are in the order of its
\* slice, and the axis is their concatenation in worker order.
C1_TimeAxisInFileOrder ==
    /\ pc = "extracting" =>
          /\ Flatten(pool.tasks) = CurrentChunk
          /\ \A i \in 1..Len(pool.results) :
                pool.results[i].done =>
                    pool.results[i].value.t_list
                        = [k \in 1..Len(pool.tasks[i]) |->
                              ValidTime(InputFile(pool.tasks[i][k]).valid_time)]
    /\ pc = "emit" =>
          /\ Len(g.t_ax) = Len(CurrentChunk)
          /\ Len(g.data_array) = Len(CurrentChunk)
          /\ \A t \in 1..Len(CurrentChunk) :
                /\ g.t_ax[t] = ValidTime(InputFile(CurrentChunk[t]).valid_time)
                /\ g.data_array[t] = ProjectFile(InputFile(CurrentChunk[t]), g.crosswalk_dict)

C1_Witness ==
    /\ pc = "emit"
    /\ conf.nprocs = 3
    /\ Len(CurrentChunk) = 4
    /\ g.t_ax = [t \in 1..4 |-> <<"20220101", " ", t>>]

\* C2: with csv or parquet output, once the emission of chunk j is complete every
\* catchment's file holds exactly the rows of the files of chunks 1..j, one row per
\* file, in file-list order; two chunks of two files give 4 data rows.
C2_RowsAccumulateByChunk ==
    \A j \in 1..MaxFiles :
        (Loose /\ run = 1 /\ EmittedChunks(j)) =>
            \A c \in 1..Len(CatchmentKeys) :
                /\ OutputFile(CatchmentKeys[c]) \in DOMAIN store
                /\ DataRows(store[OutputFile(CatchmentKeys[c])])
                       = ExpectedRows(FilesOfChunks(j), CatchmentKeys[c])
                /\ (conf.nfiles = 4 /\ conf.nfile_chunk = 2 /\ j = 2) =>
                       Len(DataRows(store[OutputFile(CatchmentKeys[c])])) = 4

C2_Witness ==
    /\ conf.output_file_type = <<"csv">>
    /\ conf.nfiles = 4
    /\ conf.nfile_chunk = 2
    /\ EmittedChunks(2)
    /\ \A c \in 1..Len(CatchmentKeys) :
          Len(store[OutputFile(CatchmentKeys[c])].lines) = 5

C4_ExitsZero == g.storage_type \in {"local", "s3"} => pc # "error"

\* C9: the time axis, the cube and the per-catchment tables, in crosswalk order, are
\* those of a run with one worker, whatever nprocs is.
C9_SameForEveryNprocs ==
    /\ pc = "emit" =>
          LET one == forcing_grid2catchment(
                         [k \in 1..Len(CurrentChunk) |-> InputFile(CurrentChunk[k])],
                         g.crosswalk_dict)
          IN  g.data_array = one.data_list /\ g.t_ax = one.t_list
    /\ (pc = "writing" /\ AllDone) =>
          LET got   == Gather(pool.results)
              ids   == Flatten([i \in 1..Len(got) |-> got[i].forcing_cat_ids])
              dfs   == Flatten([i \in 1..Len(got) |-> got[i].dfs])
              files == IF Loose THEN FilesOfChunks(g.jloop + 1) ELSE CurrentChunk
          IN  /\ ids = [c \in 1..Len(CatchmentKeys) |-> CatchmentKeys[c][2]]
              /\ Len(dfs) = Len(CatchmentKeys)
              /\ \A c \in 1..Len(CatchmentKeys) :
                    /\ dfs[c].columns = <<"time">> \o ngen_variables
                    /\ dfs[c].rows = ExpectedRows(files, CatchmentKeys[c])

C9_Witness ==
    /\ conf.nprocs = 8
    /\ conf.nfiles = 3
    /\ Len(CatchmentKeys) = 3
    /\ pc = "writing"
    /\ AllDone
    /\ Len(pool.tasks) = 3

\* the documents of the configuration have no catchment in common
DisjointDocuments ==
    \A a, b \in 1..Len(WeightFiles) :
        a # b => \A k \in 1..Len(WeightFiles[a].body) :
                     ~HasKey(WeightFiles[b].body, WeightFiles[a].body[k][1])

\* C10: once the loader is done the groupings partition the catchment set: each
\* group holds the identifiers of its own document, no identifier is in two groups,
\* and the groups cover the crosswalk union.
C10_GroupsPartition ==
    (pc \notin {"idle", "config", "readweights"} /\ DisjointDocuments) =>
        /\ Len(g.jcatchment_dict) = Len(WeightFiles)
        /\ \A d \in 1..Len(g.jcatchment_dict) :
              g.jcatchment_dict[d][2] = Keys(WeightFiles[d].body)
        /\ \A a, b \in 1..Len(g.jcatchment_dict) :
              a # b => \A k \in 1..Len(g.jcatchment_dict[a][2]) :
                           ~Contains(g.jcatchment_dict[b][2], g.jcatchment_dict[a][2][k])
        /\ \A c \in 1..Len(CatchmentKeys) :
              \E d \in 1..Len(g.jcatchment_dict) :
                  Contains(g.jcatchment_dict[d][2], CatchmentKeys[c])

\* the descriptor that the last of the first n documents holding key gives it
LastDescriptor(key, n) ==
    LET docs == {d \in 1..n : HasKey(WeightFiles[d].body, key)}
        last == CHOOSE d \in docs : \A e \in docs : e <= d
    IN  Lookup(WeightFiles[last].body, key)

\* the rows of the files computed from one descriptor
RowsFrom(files, desc) ==
    [k \in 1..Len(files) |->
        <<ValidTime(InputFile(files[k]).valid_time)>>
        \o ProjectCatchment(DecodeFile(InputFile(files[k]).data), desc)]

\* C11: after any number of documents are loaded the crosswalk holds every
\* identifier of these documents and maps it to the descriptor of the last document
\* that contains it, and the rows emitted for a catchment are the projection by that
\* descriptor only.
C11_LastDocumentWins ==
    /\ pc \notin {"idle", "config"} =>
          /\ \A d \in 1..g.wf : \A k \in 1..Len(WeightFiles[d].body) :
                HasKey(g.crosswalk_dict, WeightFiles[d].body[k][1])
          /\ \A c \in 1..Len(CatchmentKeys) :
                Lookup(g.crosswalk_dict, CatchmentKeys[c])
                    = LastDescriptor(CatchmentKeys[c], g.wf)
    /\ \A j \in 1..MaxFiles :
          (Loose /\ run = 1 /\ EmittedChunks(j)) =>
              \A c \in 1..Len(CatchmentKeys) :
                  /\ OutputFile(CatchmentKeys[c]) \in DOMAIN store
                  /\ DataRows(store[OutputFile(CatchmentKeys[c])])
                         = RowsFrom(FilesOfChunks(j),
                                    LastDescriptor(CatchmentKeys[c], Len(WeightFiles)))

C11_Witness ==
    /\ ~DisjointDocuments
    /\ Lookup(WeightFiles[1].body, Cat("1")) = Desc1
    /\ Lookup(WeightFiles[2].body, Cat("1")) = Desc3
    /\ Loose
    /\ EmittedChunks(1)
    /\ Lookup(g.crosswalk_dict, Cat("1")) = Desc3
    /\ DataRows(store[OutputFile(Cat("1"))]) = RowsFrom(FilesOfChunks(1), Desc3)
    /\ DataRows(store[OutputFile(Cat("1"))]) # RowsFrom(FilesOfChunks(1), Desc1)

\* the loop is over and the run has gone through its archive step
PastArchive == g.nloops >= 1 /\ g.jloop = g.nloops /\ pc \in {"finish", "done", "error"}

\* C12: in a run with tar output, once the chunk loop is over and the archive step
\* is behind, there is one archive <L>_forcings.tar.gz per group label L, with one
\* member per catchment of L, named cat-<id>.<ext> and holding that catchment's table.
C12_ArchivePerGroup ==
    (/\ Contains(conf.output_file_type, "tar")
     /\ ~conf.collect_stats
     /\ g.storage_type \in {"local", "s3"}
     /\ PastArchive) =>
        /\ Len(g.archives) = Len(g.jcatchment_dict)
        /\ \A d \in 1..Len(g.jcatchment_dict) :
              LET cats == g.jcatchment_dict[d][2]
                  tar  == g.archives[d]
              IN  /\ tar.tar_name = g.jcatchment_dict[d][1] \o <<"_forcings.tar.gz">>
                  /\ Len(tar.members) = Len(cats)
                  /\ \A j \in 1..Len(cats) :
                        /\ tar.members[j].arcname = FileName(cats[j][2], OutputExt)
                        /\ tar.members[j].df.rows
                               = ExpectedRows(g.nwm_forcing_files, cats[j])

\* the file list is read and the chunk loop is set up
LoopSetUp == pc \notin {"idle", "config", "readweights"} /\ g.nloops >= 1

\* files [j*c, min((j+1)*c, N)) of the run's list, j counted from 0
ContiguousRun(j) ==
    LET lo == j * conf.nfile_chunk
        hi == Min2((j + 1) * conf.nfile_chunk, conf.nfiles)
    IN  [k \in 1..(hi - lo) |-> g.nwm_forcing_files[lo + k]]

\* C17: the driver makes ceil(N/c) chunks; chunk j is files [j*c, min((j+1)*c, N))
\* and the chunks in order concatenate to the list; the chunks are taken one after
\* another; when the emission of a chunk runs its extraction is over, the whole time
\* axis of the chunk is in every task; emission runs with append false for chunk 0
\* and true for every later chunk.
C17_ChunkedDriver ==
    LoopSetUp =>
        /\ g.nloops * conf.nfile_chunk >= conf.nfiles
        /\ (g.nloops - 1) * conf.nfile_chunk < conf.nfiles
        /\ \A j \in 0..(g.nloops - 1) :
              ChunkFiles(g.nwm_forcing_files, j, conf.nfile_chunk) = ContiguousRun(j)
        /\ Flatten([j \in 1..g.nloops |->
                       ChunkFiles(g.nwm_forcing_files, j - 1, conf.nfile_chunk)])
               = g.nwm_forcing_files
        /\ g.jloop <= g.nloops
        /\ pc \in {"loop", "extracting", "emit", "writing"} => g.jloop < g.nloops
        /\ pc \in {"metadata", "tar", "finish", "done"} => g.jloop = g.nloops
        /\ pc = "extracting" =>
              /\ pool.kind = "extract"
              /\ Flatten(pool.tasks) = ContiguousRun(g.jloop)
        /\ pc = "emit" => pool.kind = "none"
        /\ pc = "writing" =>
              /\ pool.kind = "write"
              /\ g.ii_append = (g.jloop >= 1)
              /\ \A i \in 1..Len(pool.tasks) :
                    pool.tasks[i].t_ax
                        = [k \in 1..Len(ContiguousRun(g.jloop)) |->
                              ValidTime(InputFile(ContiguousRun(g.jloop)[k]).valid_time)]

C17_Witness ==
    /\ conf.nfiles = 3
    /\ conf.nfile_chunk = 2
    /\ g.nloops = 2
    /\ pc = "writing"
    /\ g.jloop = 1
    /\ g.ii_append
    /\ CurrentChunk = <<3>>
    /\ AllDone

\* the shares the balancer gives the emission workers
WriteShares ==
    load_balance(distribute_work(Len(CatchmentKeys), conf.nprocs),
                 write_cycle_time, write_catchments_per_cycle)

\* the number of catchments of the tasks before task i
TaskOffset(i) == SumSeq([k \in 1..(i - 1) |-> Len(pool.tasks[k].catchments)])

\* C18: the tasks of multiprocess_write hold contiguous, pairwise disjoint runs of
\* the catchments that follow the crosswalk order and cover it; task i holds the
\* share of worker i; column j of a task's slice is the cube's column of the task's
\* j-th catchment; no two workers write a file of the same name.
C18_DisjointRanges ==
    /\ err # "IndexError"
    /\ pc = "writing" =>
          LET shares == WriteShares
              keys   == CatchmentKeys
              offset == [i \in 1..Len(pool.tasks) |-> TaskOffset(i)]
          IN  /\ Len(pool.tasks) = Len(shares)
              /\ \A i \in 1..Len(pool.tasks) :
                    /\ Len(pool.tasks[i].catchments) = shares[i]
                    /\ pool.tasks[i].catchments
                           = [j \in 1..shares[i] |-> keys[offset[i] + j]]
                    /\ \A t \in 1..Len(g.data_array) : \A v \in 1..Len(ngen_variables) :
                           pool.tasks[i].data[t][v]
                               = [j \in 1..shares[i] |-> g.data_array[t][v][offset[i] + j]]
              /\ Flatten([i \in 1..Len(pool.tasks) |-> pool.tasks[i].catchments]) = keys
              /\ \A i, k \in 1..Len(pool.tasks) :
                    i # k =>
                        /\ \A j \in 1..Len(pool.tasks[i].catchments) :
                              ~Contains(pool.tasks[k].catchments,
                                        pool.tasks[i].catchments[j])
                        /\ (pool.results[i].done /\ pool.results[k].done) =>
                              \A j \in 1..Len(pool.results[i].value.filenames) :
                                  ~Contains(pool.results[k].value.filenames,
                                            pool.results[i].value.filenames[j])

C18_Witness ==
    /\ pc = "writing"
    /\ AllDone
    /\ conf.nprocs = 2
    /\ Len(pool.tasks) = 2
    /\ pool.tasks[1].catchments = <<Cat("1"), Cat("2")>>
    /\ pool.tasks[2].catchments = <<Cat("3")>>
    /\ pool.results[2].value.filenames = <<FileName("3", OutputExt)>>

\* C19: in the extraction stage and in the emission stage the pool is as large as
\* the share vector that load_balance returned is long, and so is the task list.
C19_PoolIsWorkerCount ==
    /\ pc = "extracting" =>
          LET files_per_proc ==
                  load_balance(distribute_work(Len(CurrentChunk), conf.nprocs),
                               extract_cycle_time, extract_files_per_cycle)
          IN  /\ pool.max_workers = Len(files_per_proc)
              /\ Len(pool.tasks) = Len(files_per_proc)
    /\ pc = "writing" =>
          /\ pool.max_workers = Len(WriteShares)
          /\ Len(pool.tasks) = Len(WriteShares)

(***************************************************************************)
(* Properties on the further configurations.                               *)
(***************************************************************************)
\* the emission of at least one chunk is complete
SomeChunkEmitted == g.jloop >= 1 /\ pc # "writing"

\* C13: with csv and parquet both named, once a chunk is emitted every catchment has
\* a cat-<id>.csv and a cat-<id>.parquet.
C13_EveryNamedFormat ==
    (/\ Contains(conf.output_file_type, "csv")
     /\ Contains(conf.output_file_type, "parquet")
     /\ g.storage_type \in {"local", "s3"}
     /\ SomeChunkEmitted) =>
        \A c \in 1..Len(CatchmentKeys) :
            /\ FileName(CatchmentKeys[c][2], "csv") \in DOMAIN store
            /\ FileName(CatchmentKeys[c][2], "parquet") \in DOMAIN store

\* the sink the output path selects: S3 for s3 paths, GCS for google and gs://
\* paths, the local file system otherwise
SelectedSink(output_path) ==
    IF Contains(output_path, "s3") THEN "S3"
    ELSE IF Contains(output_path, "google") \/ Contains(output_path, "gs://") THEN "GCS"
    ELSE "LOCAL"

\* C14: with csv or parquet output, a worker that is done without an error has put
\* the table of each of its catchments, once a chunk is emitted every catchment's
\* table is there, and the tables are put to the sink that the output path selects.
C14_SelectedSink ==
    /\ (Loose /\ pc = "writing") =>
          \A i \in 1..Len(pool.results) :
              (pool.results[i].done /\ pool.results[i].value.err = "") =>
                  /\ Sink(g.storage_type) = SelectedSink(conf.output_path)
                  /\ \A k \in 1..Len(pool.tasks[i].catchments) :
                        OutputFile(pool.tasks[i].catchments[k]) \in DOMAIN store
    /\ (Loose /\ SomeChunkEmitted) =>
          /\ Sink(g.storage_type) = SelectedSink(conf.output_path)
          /\ \A c \in 1..Len(CatchmentKeys) :
                OutputFile(CatchmentKeys[c]) \in DOMAIN store

\* a crosswalk entry with a cell index outside the grid or with a zero weight sum
BadEntry(desc) ==
    \/ \E k \in 1..Len(desc[1]) : desc[1][k] \notin 0..(NCells - 1)
    \/ SumSeq(desc[2]) = 0

BadCrosswalk ==
    \E d \in 1..Len(WeightFiles) : \E k \in 1..Len(WeightFiles[d].body) :
        BadEntry(WeightFiles[d].body[k][2])

\* C15: with such an entry in a crosswalk document no extraction pool is ever
\* started and no table is ever written: the run has failed at load time.
C15_FatalAtLoad ==
    BadCrosswalk =>
        /\ pool.kind = "none"
        /\ store = EmptyStore

====
